---- MODULE Spec2Model ----
(***************************************************************************)
(* A model of the autorandr-rs daemon (src/commands/daemon.rs, src/lib.rs):*)
(* the profile matcher, the mode resolver, the Crtc allocator, the ordered *)
(* commit of apply_config and the event loop of daemon, running against a  *)
(* model of the RandR state of the X server.                               *)
(***************************************************************************)
EXTENDS Integers, Sequences, FiniteSets, TLC

(* ---------------------------------------------------------------------- *)
(* The universe of the model                                              *)
(* ---------------------------------------------------------------------- *)

\* Bounds of the exploration.
MaxEnv == 1
MaxFaults == 1
MaxList == 2

\* Handles of the server.  0 is the protocol's None for a Crtc and a mode.
Crtcs == {1, 2}
Outputs == {1, 2}
\* Monitor identities (parsed EDIDs); 0 stands for "no readable EDID".
Monitors == {1, 2}

Mode(w, h) == [w |-> w, h |-> h]
Position(x, y) == [x |-> x, y |-> y]

\* The mode descriptors the server advertises (GetScreenResources.modes).
\* Modes 1 and 2 have the same size (two refresh rates).
ServerModes ==
    { [id |-> 1, width |-> 1, height |-> 1],
      [id |-> 2, width |-> 1, height |-> 1],
      [id |-> 3, width |-> 2, height |-> 1] }

ModeIds == {mi.id : mi \in ServerModes}

ModeSize(id) == IF id = 0 THEN Mode(0, 0)
                ELSE LET mi == CHOOSE r \in ServerModes : r.id = id
                     IN  Mode(mi.width, mi.height)

\* The hardware the server may have: per output the capable Crtcs and the
\* supported mode ids, in the order GetOutputInfo lists them.
Hardware ==
    { [crtcs |-> <<(<<1, 2>>), (<<2, 1>>)>>, modes |-> <<(<<1, 3>>), (<<2, 1, 3>>)>>],
      [crtcs |-> <<(<<1, 2>>), (<<1>>)>>,    modes |-> <<(<<2, 1, 3>>), (<<2>>)>>] }

\* The framebuffer sizes the server may start with.
ScreenSizes == { Mode(1, 1), Mode(1, 2), Mode(3, 1) }

Range(s) == {s[i] : i \in 1..Len(s)}

Max(a, b) == IF a >= b THEN a ELSE b

(* ---------------------------------------------------------------------- *)
(* The profile set (config::Config), loaded once and read-only            *)
(* ---------------------------------------------------------------------- *)

MonConfig(name, mode, position) ==
    [name |-> name, mode |-> mode, position |-> position]

SingleConfig(name, setup, fb_size) ==
    [name |-> name, setup |-> setup, fb_size |-> fb_size]

\* Keys are sorted lists of monitor identities.
\*   <<1>>     one monitor A
\*   <<1, 2>>  A beside B
\*   <<2>>     B alone, in a size the server does not advertise
\*   <<2, 2>>  two monitors of identity B showing the same picture
Config ==
    (<<1>> :> SingleConfig("single",
                 (1 :> MonConfig("A", Mode(1, 1), Position(0, 0))),
                 Mode(1, 1)))
    @@ (<<1, 2>> :> SingleConfig("dual",
                 (1 :> MonConfig("A", Mode(1, 1), Position(0, 0)))
                 @@ (2 :> MonConfig("B", Mode(2, 1), Position(1, 0))),
                 Mode(3, 1)))
    @@ (<<2>> :> SingleConfig("tall",
                 (2 :> MonConfig("B", Mode(2, 2), Position(0, 0))),
                 Mode(2, 2)))
    @@ (<<2, 2>> :> SingleConfig("twin",
                 (2 :> MonConfig("B", Mode(1, 1), Position(0, 0))),
                 Mode(1, 1)))

\* Mode::union: the component-wise maximum of two sizes.
union(a, b) == Mode(Max(a.w, b.w), Max(a.h, b.h))

(* ---------------------------------------------------------------------- *)
(* State                                                                  *)
(* ---------------------------------------------------------------------- *)

VARIABLES
    \* --- the server ---
    resOutputs,   \* GetScreenResourcesCurrent.outputs, in the server's order
    outCrtcs,     \* per output: GetOutputInfo.crtcs (capable Crtcs)
    outModes,     \* per output: GetOutputInfo.modes (supported mode ids)
    edid,         \* per output: the identity its EDID parses to, or 0
    crtcInfo,     \* per Crtc: GetCrtcInfo (x, y, mode, outputs)
    screen,       \* the framebuffer size (GetGeometry of the root window)
    events,       \* the events queued for the daemon's connection
    \* --- the daemon ---
    pc,           \* where the daemon is
    force_print,  \* switch_setup's argument
    cfg,          \* what get_config returned for the running pass
    enables,      \* apply_config's enable queue
    disables,     \* apply_config's disable queue
    geom,         \* the geometry apply_config read
    current,      \* apply_config's local "current"
    result,       \* how the last pass ended
    \* --- bookkeeping of the exploration ---
    log,          \* the write requests the running pass has issued
    allocs,       \* the allocations allocate_crtc made in the running pass
    allOk,        \* every request of the running pass was applied
    hwChanged,    \* a monitor was plugged or unplugged since the pass began
    prevClean,    \* the pass before this one succeeded, nothing changed since
    prevResult,   \* how the pass before the running one ended
    passes,       \* synchronization passes started
    consumed,     \* screen-change notifications consumed
    nEnv,         \* environment steps taken
    faults,       \* failures injected
    \* --- a function applied on its own ---
    probe         \* its arguments and, once applied, its result

server == <<resOutputs, outCrtcs, outModes, edid, crtcInfo, screen>>
static == <<resOutputs, outCrtcs, outModes>>
locals == <<cfg, enables, disables, geom, current>>
vars == <<resOutputs, outCrtcs, outModes, edid, crtcInfo, screen, events,
          pc, force_print, cfg, enables, disables, geom, current, result,
          log, allocs, allOk, hwChanged, prevClean, prevResult, passes,
          consumed, nEnv, faults, probe>>

(* ---------------------------------------------------------------------- *)
(* Reading the server                                                     *)
(* ---------------------------------------------------------------------- *)

\* get_edid: the identity of the monitor on an output; 0 when the property
\* cannot be read or does not parse.
get_edid(output) == edid[output]

\* A reading that keeps every output, an unidentified one with identity 0.
get_monitors_all(outputs) ==
    [i \in 1..Len(outputs) |-> <<outputs[i], get_edid(outputs[i])>>]

\* get_monitors: the (output, monitor) pairs of the outputs with an identity,
\* in the order of the output list.
get_monitors(outputs) ==
    LET seen == SelectSeq(outputs, LAMBDA o : get_edid(o) # 0)
    IN  [i \in 1..Len(seen) |-> <<seen[i], get_edid(seen[i])>>]

\* The Crtc an output is bound to (GetOutputInfo.crtc), 0 when unbound.
OutputCrtc(ci, o) ==
    IF \E c \in Crtcs : o \in ci[c].outputs
    THEN CHOOSE c \in Crtcs : o \in ci[c].outputs
    ELSE 0

\* randr_get_output_info
get_output_info(o) ==
    [crtc |-> OutputCrtc(crtcInfo, o), crtcs |-> outCrtcs[o], modes |-> outModes[o]]

\* randr_get_crtc_info
get_crtc_info(c) == crtcInfo[c]

(* ---------------------------------------------------------------------- *)
(* The profile matcher                                                    *)
(* ---------------------------------------------------------------------- *)

NoConfig == [found |-> FALSE, name |-> "", fb_size |-> Mode(0, 0),
             out |-> <<>>, seen |-> <<>>]

\* The monitor list left in the order the outputs were read.
sort_none(monitors) == monitors

\* Vec::sort on the monitor list.
sort(monitors) == SortSeq(monitors, LAMBDA a, b : a < b)

\* get_config: the profile whose key is the sorted list of the attached
\* monitors, with the map from output to that output's MonConfig.
get_config(config, outputs) ==
    LET pairs == get_monitors(outputs)
        out_to_mon == [o \in {pairs[i][1] : i \in 1..Len(pairs)} |-> get_edid(o)]
        monitors == sort([i \in 1..Len(pairs) |-> pairs[i][2]])
    IN  IF monitors \notin DOMAIN config
        THEN [NoConfig EXCEPT !.seen = edid]
        ELSE LET sc == config[monitors]
                 outs == {o \in DOMAIN out_to_mon : out_to_mon[o] \in DOMAIN sc.setup}
             IN  [found |-> TRUE, name |-> sc.name, fb_size |-> sc.fb_size,
                  out |-> [o \in outs |-> sc.setup[out_to_mon[o]]],
                  seen |-> edid]

(* ---------------------------------------------------------------------- *)
(* The mode resolver                                                      *)
(* ---------------------------------------------------------------------- *)

\* The loop of mode_map over the descriptors GetScreenResources returned:
\* from a size to the ids of the modes of that size.
mode_index(resModes) ==
    [m \in {Mode(mi.width, mi.height) : mi \in resModes} |->
        {mi.id : mi \in {r \in resModes : Mode(r.width, r.height) = m}}]

\* mode_map: from a size to the ids of the server's modes of that size.
mode_map == mode_index(ServerModes)

\* The first element of list that lies in set, 0 when there is none
\* (Iterator::find_map over a list of nonzero ids).
FirstIn(list, set) ==
    IF \E i \in 1..Len(list) : list[i] \in set
    THEN list[CHOOSE i \in 1..Len(list) :
                 /\ list[i] \in set
                 /\ \A j \in 1..(i - 1) : list[j] \notin set]
    ELSE 0

\* A resolution that takes an id of the wanted size without looking at the
\* output's list.
find_mode_id_unchecked(info, modes, mode) ==
    IF mode \notin DOMAIN modes
    THEN [err |-> "ModeNotFound", id |-> 0]
    ELSE IF info.modes = <<>> THEN [err |-> "ModeNotSupported", id |-> 0]
    ELSE [err |-> "none", id |-> CHOOSE m \in modes[mode] : \A n \in modes[mode] : m <= n]

\* find_mode_id: the first mode id of the output that has the wanted size.
find_mode_id(info, modes, mode) ==
    IF mode \notin DOMAIN modes
    THEN [err |-> "ModeNotFound", id |-> 0]
    ELSE LET m == FirstIn(info.modes, modes[mode])
         IN  IF m = 0 THEN [err |-> "ModeNotSupported", id |-> 0]
                      ELSE [err |-> "none", id |-> m]

(* ---------------------------------------------------------------------- *)
(* The Crtc allocator                                                     *)
(* ---------------------------------------------------------------------- *)

\* An allocator that gives an unbound output the lowest-numbered capable
\* Crtc that is free.
allocate_crtc_lowest(info, free) ==
    LET cand == Range(info.crtcs) \cap free
        dest == IF info.crtc # 0 THEN info.crtc
                ELSE IF cand = {} THEN 0
                ELSE CHOOSE c \in cand : \A d \in cand : c <= d
    IN  [dest |-> dest, free |-> IF dest # 0 THEN free \ {dest} ELSE free]

\* An allocator that returns the bound Crtc only while it is free.
allocate_crtc_checked(info, free) ==
    LET dest == IF info.crtc # 0 /\ info.crtc \in free THEN info.crtc
                ELSE FirstIn(info.crtcs, free)
    IN  [dest |-> dest, free |-> IF dest # 0 THEN free \ {dest} ELSE free]

\* allocate_crtc: the Crtc the output is bound to, else the first capable
\* Crtc still free; the chosen Crtc leaves the free set.  dest = 0 is None.
allocate_crtc(info, free) ==
    LET dest == IF info.crtc # 0 THEN info.crtc ELSE FirstIn(info.crtcs, free)
    IN  [dest |-> dest, free |-> IF dest # 0 THEN free \ {dest} ELSE free]

\* disable_crtc: the request that switches a Crtc off, keeping its position.
disable_crtc(crtc, from) ==
    [crtc |-> crtc, x |-> from.x, y |-> from.y, mode |-> 0, outputs |-> {}]

(* ---------------------------------------------------------------------- *)
(* The server's handling of the write requests                            *)
(* ---------------------------------------------------------------------- *)

\* A Crtc's picture lies inside a framebuffer of the given size.
Fits(x, y, mode, size) ==
    mode # 0 => /\ x + ModeSize(mode).w <= size.w
                /\ y + ModeSize(mode).h <= size.h

\* The server accepts a SetCrtcConfig request: a disabled Crtc has no
\* outputs, an enabled one has outputs that support the mode and the Crtc,
\* and its picture lies inside the framebuffer.  Anything else is answered
\* with a protocol error.
ValidCrtcConfig(scr, req) ==
    /\ req.mode = 0 => req.outputs = {}
    /\ req.mode # 0 =>
          /\ req.outputs # {}
          /\ \A o \in req.outputs : /\ req.mode \in Range(outModes[o])
                                    /\ req.crtc \in Range(outCrtcs[o])
          /\ Fits(req.x, req.y, req.mode, scr)

\* The server applies a SetCrtcConfig request: the Crtc takes the request's
\* position, mode and outputs; an output moves away from the Crtc that drove
\* it, and a Crtc left without outputs is switched off.
SetCrtcConfig(ci, req) ==
    [c \in Crtcs |->
        IF c = req.crtc
        THEN [x |-> req.x, y |-> req.y, mode |-> req.mode, outputs |-> req.outputs]
        ELSE LET rest == ci[c].outputs \ req.outputs
             IN  IF rest = {} THEN [ci[c] EXCEPT !.outputs = {}, !.mode = 0]
                              ELSE [ci[c] EXCEPT !.outputs = rest]]

\* The server accepts a SetScreenSize request: every enabled Crtc still lies
\* inside the new framebuffer.
ValidScreenSize(ci, size) ==
    \A c \in Crtcs : Fits(ci[c].x, ci[c].y, ci[c].mode, size)

\* What the server can answer to the requests of a batch of n, and to a
\* SetScreenSize request: "failed" is a reply with a failure status, "error"
\* a protocol error.  Answers other than "ok" to a valid request are limited
\* by MaxFaults.
Statuses(n) ==
    {s \in [1..n -> {"ok", "failed", "error"}] :
        Cardinality({i \in 1..n : s[i] # "ok"}) <= MaxFaults - faults}

ScreenStatuses == IF faults < MaxFaults THEN {"ok", "error"} ELSE {"ok"}

Injected(s) == Cardinality({i \in 1..Len(s) : s[i] # "ok"})

\* The requests of a batch reach the server in order; each is answered and,
\* when the answer is "ok", applied.
RECURSIVE send_batch(_, _, _)
send_batch(batch, sts, acc) ==
    IF batch = <<>> THEN acc
    ELSE LET req == Head(batch)
             reply == IF ValidCrtcConfig(screen, req) THEN Head(sts) ELSE "error"
         IN  send_batch(Tail(batch), Tail(sts),
                 [ci |-> IF reply = "ok" THEN SetCrtcConfig(acc.ci, req) ELSE acc.ci,
                  replies |-> Append(acc.replies, reply)])

\* A batch that returns an error for a reply with a failure status too.
batch_config_strict(batch, sts) ==
    LET r == send_batch(batch, sts, [ci |-> crtcInfo, replies |-> <<>>])
    IN  [ci |-> r.ci, replies |-> r.replies,
         err |-> \E i \in 1..Len(r.replies) : r.replies[i] # "ok"]

\* batch_config: every request is sent, then every reply collected; a reply
\* that is a protocol error makes batch_config return an error, a failure
\* status is only logged.
batch_config(batch, sts) ==
    LET r == send_batch(batch, sts, [ci |-> crtcInfo, replies |-> <<>>])
    IN  [ci |-> r.ci, replies |-> r.replies,
         err |-> \E i \in 1..Len(r.replies) : r.replies[i] = "error"]

\* An entry of the log of write requests.
NoReq == [crtc |-> 0, x |-> 0, y |-> 0, mode |-> 0, outputs |-> {}]
CrtcEntry(step, req, reply) ==
    [step |-> step, req |-> req, size |-> Mode(0, 0), reply |-> reply, before |-> screen]
SizeEntry(step, size, reply) ==
    [step |-> step, req |-> NoReq, size |-> size, reply |-> reply, before |-> screen]

BatchEntries(step, batch, replies) ==
    [i \in 1..Len(batch) |-> CrtcEntry(step, batch[i], replies[i])]

AllReplied(replies) == \A i \in 1..Len(replies) : replies[i] = "ok"

(* ---------------------------------------------------------------------- *)
(* apply_config: building the queues                                      *)
(* ---------------------------------------------------------------------- *)

\* A test that asks for an enable request for every configured output.
needs_change_always(position, mode, crtc_info) == TRUE

\* The test that decides whether an output needs an enable request.
needs_change(position, mode, crtc_info) ==
    position.x # crtc_info.x \/ position.y # crtc_info.y \/ mode # crtc_info.mode

\* The request that makes a Crtc drive an output.
enable_crtc(crtc, position, mode, out) ==
    [crtc |-> crtc, x |-> position.x, y |-> position.y, mode |-> mode,
     outputs |-> {out}]

\* The loop of apply_config over the configured outputs, in the server's
\* order: resolve the mode, allocate a Crtc, queue an enable request when the
\* Crtc's state differs.  The first error ends the loop.  (The state handed
\* to the next iteration is bound as a value, so it is computed once.)
RECURSIVE plan_outputs(_, _, _)
plan_outputs(outs, setup, st) ==
    IF outs = <<>> \/ st.err # "none" THEN st
    ELSE LET out == Head(outs)
             conf == setup[out]
             out_info == get_output_info(out)
             mode == find_mode_id(out_info, mode_map, conf.mode)
             a == allocate_crtc(out_info, st.free)
         IN  IF mode.err # "none" THEN [st EXCEPT !.err = mode.err]
             ELSE IF a.dest = 0 THEN [st EXCEPT !.err = "NoCrtc"]
             ELSE LET crtc_info == get_crtc_info(a.dest)
                      req == enable_crtc(a.dest, conf.position, mode.id, out)
                  IN  CHOOSE r \in {plan_outputs(Tail(outs), setup, next) : next \in {
                        [free |-> a.free,
                         enables |-> IF needs_change(conf.position, mode.id, crtc_info)
                                     THEN Append(st.enables, req)
                                     ELSE st.enables,
                         allocs |-> Append(st.allocs,
                                      [out |-> out, crtc |-> a.dest,
                                       before |-> st.free, after |-> a.free,
                                       bound |-> out_info.crtc, info |-> crtc_info,
                                       position |-> conf.position,
                                       mode |-> mode.id]),
                         err |-> "none"]}} : TRUE

\* Every Crtc in use, whether it is left in the free set or not.
to_disable_all(free) ==
    {c \in Crtcs : get_crtc_info(c).outputs # {} \/ get_crtc_info(c).mode # 0}

\* The Crtcs left in the free set that are still in use.
to_disable(free) ==
    {c \in free : get_crtc_info(c).outputs # {} \/ get_crtc_info(c).mode # 0}

\* The orders in which a hash set can be iterated.
Orderings(S) ==
    {s \in [1..Cardinality(S) -> S] : \A i, j \in 1..Cardinality(S) : s[i] = s[j] => i = j}

\* "Nothing to do" decided on the queues alone.
unchanged_queues_only(dis, en, cur, fb_size) == dis = <<>> /\ en = <<>>

\* The test for "nothing to do".
unchanged(dis, en, cur, fb_size) == dis = <<>> /\ en = <<>> /\ cur = fb_size

(* ---------------------------------------------------------------------- *)
(* The daemon                                                             *)
(* ---------------------------------------------------------------------- *)

InPass == pc \in {"switch", "plan", "disable", "grow", "enable", "final"}

\* A synchronization pass begins: switch_setup is called.
BeginPass(force) ==
    /\ pc' = "switch"
    /\ force_print' = force
    /\ passes' = passes + 1
    /\ cfg' = NoConfig
    /\ enables' = <<>>
    /\ disables' = <<>>
    /\ geom' = Mode(0, 0)
    /\ current' = Mode(0, 0)
    /\ result' = "running"
    /\ log' = <<>>
    /\ allocs' = <<>>
    /\ allOk' = TRUE
    /\ prevClean' = (result \in {"changed", "unchanged"} /\ allOk /\ ~hwChanged)
    /\ prevResult' = result
    /\ hwChanged' = FALSE

\* The ways a pass can fail.
PassErrors == {"NoMatch", "ModeNotFound", "ModeNotSupported", "NoCrtc", "ProtocolError"}

\* A pass whose error is passed on to the caller of the loop, ending the
\* process.
EndPass_exit(how) ==
    /\ pc' = IF how \in PassErrors THEN "exited" ELSE "wait"
    /\ result' = how

\* A pass ends: switch_setup returns and the loop waits for the next event.
EndPass(how) ==
    /\ pc' = "wait"
    /\ result' = how

\* daemon, startup: connect, intern the EDID atom, subscribe to the
\* notifications, then run switch_setup once with force_print.
daemon_start ==
    /\ pc = "start"
    /\ BeginPass(TRUE)
    /\ UNCHANGED <<server, events, consumed, nEnv, faults>>
    /\ UNCHANGED probe

\* daemon, startup: the connection, the atom or the subscription fails and
\* the process exits with status 1.
daemon_exit ==
    /\ pc = "start"
    /\ faults < MaxFaults
    /\ faults' = faults + 1
    /\ pc' = "exited"
    /\ UNCHANGED <<server, events, force_print, locals, result, log, allocs, allOk,
                   hwChanged, prevClean, prevResult, passes, consumed, nEnv>>
    /\ UNCHANGED probe

\* The loop running switch_setup on every event, whatever its kind.
wait_for_event_any ==
    /\ pc = "wait"
    /\ events # <<>>
    /\ events' = Tail(events)
    /\ BeginPass(FALSE)
    /\ consumed' = IF Head(events) = "ScreenChangeNotify" THEN consumed + 1 ELSE consumed
    /\ UNCHANGED <<server, nEnv, faults>>
    /\ UNCHANGED probe

\* daemon, the loop: take the next event; a screen-change notification runs
\* switch_setup, any other event is dropped.
wait_for_event ==
    /\ pc = "wait"
    /\ events # <<>>
    /\ events' = Tail(events)
    /\ IF Head(events) = "ScreenChangeNotify"
       THEN /\ BeginPass(FALSE)
            /\ consumed' = consumed + 1
       ELSE UNCHANGED <<pc, force_print, locals, result, log, allocs, allOk,
                        hwChanged, prevClean, prevResult, passes, consumed>>
    /\ UNCHANGED <<server, nEnv, faults>>
    /\ UNCHANGED probe

\* switch_setup with a fallback: when no profile matches, the profile of the
\* first key is applied to every identified output.
switch_setup_fallback ==
    /\ pc = "switch"
    /\ LET got == get_config(Config, resOutputs)
           sc == Config[<<1>>]
       IN  cfg' = IF got.found THEN got
                  ELSE [found |-> TRUE, name |-> sc.name, fb_size |-> sc.fb_size,
                        out |-> [o \in {o \in Outputs : get_edid(o) # 0} |-> sc.setup[1]],
                        seen |-> edid]
    /\ pc' = "plan"
    /\ UNCHANGED <<server, events, force_print, enables, disables, geom, current,
                   result, log, allocs, allOk, hwChanged, prevClean, prevResult,
                   passes, consumed, nEnv, faults>>
    /\ UNCHANGED probe

\* switch_setup: list the outputs and look the attached monitors up.
switch_setup ==
    /\ pc = "switch"
    /\ cfg' = get_config(Config, resOutputs)
    /\ IF cfg'.found THEN pc' = "plan" /\ UNCHANGED result
                     ELSE EndPass("NoMatch")
    /\ UNCHANGED <<server, events, force_print, enables, disables, geom, current,
                   log, allocs, allOk, hwChanged, prevClean, prevResult, passes, consumed,
                   nEnv, faults>>
    /\ UNCHANGED probe

\* A read request of the pass (get_outputs, mode_map, get_output_info,
\* get_crtc_info, get_geometry) is answered with an error.
read_error ==
    /\ pc \in {"switch", "plan"}
    /\ faults < MaxFaults
    /\ faults' = faults + 1
    /\ EndPass("ProtocolError")
    /\ UNCHANGED <<server, events, force_print, locals, log, allocs, allOk,
                   hwChanged, prevClean, prevResult, passes, consumed, nEnv>>
    /\ UNCHANGED probe

\* A planning loop that sends each enable request as soon as it is built,
\* before the later outputs are resolved and allocated.
apply_config_plan_eager ==
    /\ pc = "plan"
    /\ LET outs_in_conf == SelectSeq(resOutputs, LAMBDA o : o \in DOMAIN cfg.out)
           st == plan_outputs(outs_in_conf, cfg.out,
                    [free |-> Crtcs, enables |-> <<>>, allocs |-> <<>>, err |-> "none"])
           r == batch_config(st.enables, [i \in 1..Len(st.enables) |-> "ok"])
       IN  /\ allocs' = st.allocs
           /\ enables' = st.enables
           /\ IF st.err # "none"
              THEN /\ EndPass(st.err)
                   /\ crtcInfo' = r.ci
                   /\ log' = log \o BatchEntries("enable", st.enables, r.replies)
                   /\ UNCHANGED <<disables, geom, current>>
              ELSE \E order \in Orderings(to_disable(st.free)) :
                   /\ disables' = [i \in 1..Len(order) |->
                                     disable_crtc(order[i], get_crtc_info(order[i]))]
                   /\ geom' = screen
                   /\ current' = screen
                   /\ UNCHANGED <<crtcInfo, log>>
                   /\ IF unchanged(disables', enables', current', cfg.fb_size)
                      THEN EndPass("unchanged")
                      ELSE pc' = "disable" /\ UNCHANGED result
    /\ UNCHANGED <<static, edid, screen, events, force_print, cfg, allOk, hwChanged,
                   prevClean, prevResult, passes, consumed, nEnv, faults>>
    /\ UNCHANGED probe

\* apply_config up to its decision: the queues, the geometry, and "unchanged"
\* when there is nothing to do.
apply_config_plan ==
    /\ pc = "plan"
    /\ LET outs_in_conf == SelectSeq(resOutputs, LAMBDA o : o \in DOMAIN cfg.out)
       IN  \E st \in {plan_outputs(outs_in_conf, cfg.out,
                    [free |-> Crtcs, enables |-> <<>>, allocs |-> <<>>, err |-> "none"])} :
           /\ allocs' = st.allocs
           /\ enables' = st.enables
           /\ IF st.err # "none"
              THEN /\ EndPass(st.err)
                   /\ UNCHANGED <<disables, geom, current>>
              ELSE \E order \in Orderings(to_disable(st.free)) :
                   /\ disables' = [i \in 1..Len(order) |->
                                     disable_crtc(order[i], get_crtc_info(order[i]))]
                   /\ geom' = screen
                   /\ current' = screen
                   /\ IF unchanged(disables', enables', current', cfg.fb_size)
                      THEN EndPass("unchanged")
                      ELSE pc' = "disable" /\ UNCHANGED result
    /\ UNCHANGED <<server, events, force_print, cfg, log, allOk, hwChanged,
                   prevClean, prevResult, passes, consumed, nEnv, faults>>
    /\ UNCHANGED probe

(* ---------------------------------------------------------------------- *)
(* apply_config: the ordered commit                                       *)
(* ---------------------------------------------------------------------- *)

\* The screen-change notifications the server queues for the daemon's own
\* connection, one for each request it applied.  With echo = FALSE the
\* daemon's writes are not echoed and notifications come from the
\* environment steps only.
Echo(echo, replies) ==
    IF echo
    THEN [i \in 1..Cardinality({j \in 1..Len(replies) : replies[j] = "ok"}) |->
            "ScreenChangeNotify"]
    ELSE <<>>

\* First the Crtcs that must be disabled are disabled, as one batch.
commit_disable(echo) ==
    /\ pc = "disable"
    /\ \E sts \in Statuses(Len(disables)) :
         LET r == batch_config(disables, sts)
         IN  /\ crtcInfo' = r.ci
             /\ log' = log \o BatchEntries("disable", disables, r.replies)
             /\ events' = events \o Echo(echo, r.replies)
             /\ allOk' = (allOk /\ AllReplied(r.replies))
             /\ faults' = faults + Injected(sts)
             /\ IF r.err THEN EndPass("ProtocolError")
                         ELSE pc' = "grow" /\ UNCHANGED result
    /\ UNCHANGED <<static, edid, screen, force_print, locals, allocs,
                   hwChanged, prevClean, prevResult, passes, consumed, nEnv>>
    /\ UNCHANGED probe

\* The disable batch when the daemon's writes are not echoed.
apply_config_disable == commit_disable(FALSE)

\* Two slips in the size set before the enable batch: the target itself,
\* and no growth at all.
grow_size_target(cur, fb_size) == fb_size
grow_size_none(cur, fb_size) == cur

\* The size the screen is set to before the enable batch.
grow_size(cur, fb_size) == union(cur, fb_size)

\* Then the screen is made large enough for both configurations.
commit_grow(echo) ==
    /\ pc = "grow"
    /\ IF current # grow_size(current, cfg.fb_size)
       THEN \E st \in ScreenStatuses :
              LET size == grow_size(current, cfg.fb_size)
                  reply == IF ValidScreenSize(crtcInfo, size) THEN st ELSE "error"
              IN  /\ current' = size
                  /\ screen' = IF reply = "ok" THEN size ELSE screen
                  /\ log' = Append(log, SizeEntry("grow", size, reply))
                  /\ events' = events \o Echo(echo, <<reply>>)
                  /\ allOk' = (allOk /\ reply = "ok")
                  /\ faults' = IF st = "ok" THEN faults ELSE faults + 1
                  /\ IF reply = "error" THEN EndPass("ProtocolError")
                                        ELSE pc' = "enable" /\ UNCHANGED result
       ELSE /\ pc' = "enable"
            /\ UNCHANGED <<current, screen, log, events, allOk, faults, result>>
    /\ UNCHANGED <<static, edid, crtcInfo, force_print, cfg, enables,
                   disables, geom, allocs, hwChanged, prevClean, prevResult, passes,
                   consumed, nEnv>>
    /\ UNCHANGED probe

\* The grow when the daemon's writes are not echoed.
apply_config_grow == commit_grow(FALSE)

\* Then the Crtcs are enabled and their modes changed, as one batch.
commit_enable(echo) ==
    /\ pc = "enable"
    /\ \E sts \in Statuses(Len(enables)) :
         LET r == batch_config(enables, sts)
         IN  /\ crtcInfo' = r.ci
             /\ log' = log \o BatchEntries("enable", enables, r.replies)
             /\ events' = events \o Echo(echo, r.replies)
             /\ allOk' = (allOk /\ AllReplied(r.replies))
             /\ faults' = faults + Injected(sts)
             /\ IF r.err THEN EndPass("ProtocolError")
                         ELSE pc' = "final" /\ UNCHANGED result
    /\ UNCHANGED <<static, edid, screen, force_print, locals, allocs,
                   hwChanged, prevClean, prevResult, passes, consumed, nEnv>>
    /\ UNCHANGED probe

\* The enable batch when the daemon's writes are not echoed.
apply_config_enable == commit_enable(FALSE)

\* A commit that ends after the enable batch, without setting the size of
\* the final configuration.
apply_config_final_none ==
    /\ pc = "final"
    /\ EndPass("changed")
    /\ UNCHANGED <<server, events, force_print, locals, log, allocs, allOk, faults,
                   hwChanged, prevClean, prevResult, passes, consumed, nEnv>>
    /\ UNCHANGED probe

\* Last the screen is set to the size of the final configuration, and
\* apply_config returns "changed".
commit_final(echo) ==
    /\ pc = "final"
    /\ IF current # cfg.fb_size
       THEN \E st \in ScreenStatuses :
              LET reply == IF ValidScreenSize(crtcInfo, cfg.fb_size) THEN st ELSE "error"
              IN  /\ screen' = IF reply = "ok" THEN cfg.fb_size ELSE screen
                  /\ log' = Append(log, SizeEntry("final", cfg.fb_size, reply))
                  /\ events' = events \o Echo(echo, <<reply>>)
                  /\ allOk' = (allOk /\ reply = "ok")
                  /\ faults' = IF st = "ok" THEN faults ELSE faults + 1
                  /\ EndPass(IF reply = "error" THEN "ProtocolError" ELSE "changed")
       ELSE /\ EndPass("changed")
            /\ UNCHANGED <<screen, log, events, allOk, faults>>
    /\ UNCHANGED <<static, edid, crtcInfo, force_print, locals, allocs,
                   hwChanged, prevClean, prevResult, passes, consumed, nEnv>>
    /\ UNCHANGED probe

\* The final size when the daemon's writes are not echoed.
apply_config_final == commit_final(FALSE)

(* ---------------------------------------------------------------------- *)
(* The environment                                                        *)
(* ---------------------------------------------------------------------- *)

daemonVars == <<pc, force_print, cfg, enables, disables, geom, current, result,
                log, allocs, allOk, prevClean, prevResult, passes, consumed, faults>>

\* The daemon reads the monitors once per pass, in switch_setup, and takes
\* events only while it waits, so an environment step during a pass has the
\* effect of the same step taken right after it; the environment therefore
\* moves while the daemon waits.

\* A monitor is plugged in, unplugged or swapped; the server notifies.
hotplug ==
    /\ nEnv < MaxEnv
    /\ pc = "wait"
    /\ \E o \in Outputs, m \in {0} \cup Monitors :
         /\ edid[o] # m
         /\ edid' = [edid EXCEPT ![o] = m]
    /\ events' = Append(events, "ScreenChangeNotify")
    /\ hwChanged' = TRUE
    /\ nEnv' = nEnv + 1
    /\ UNCHANGED <<static, crtcInfo, screen, daemonVars>>
    /\ UNCHANGED probe

\* The server delivers an event with no change of the attached monitors: a
\* screen-change notification, or an event of another kind (output change,
\* Crtc change).
notify ==
    /\ nEnv < MaxEnv
    /\ pc = "wait"
    /\ \E e \in {"ScreenChangeNotify", "RandrNotify"} : events' = Append(events, e)
    /\ nEnv' = nEnv + 1
    /\ UNCHANGED <<server, hwChanged, daemonVars>>
    /\ UNCHANGED probe

(* ---------------------------------------------------------------------- *)
(* The specification                                                      *)
(* ---------------------------------------------------------------------- *)

\* The states a Crtc can be in, and the server states that are consistent:
\* a Crtc is enabled exactly when it has an output, drives at most one, in a
\* mode and on a Crtc the output supports, inside the framebuffer.
CrtcStates ==
    {s \in [x : {0, 1}, y : {0}, mode : {0} \cup ModeIds,
            outputs : {{}} \cup {{o} : o \in Outputs}] :
        s.x = 1 => ModeSize(s.mode).w = 2}

Consistent(ci, scr, ocrtcs, omodes) ==
    /\ \A c \in Crtcs :
          /\ ci[c].mode = 0 <=> ci[c].outputs = {}
          /\ Fits(ci[c].x, ci[c].y, ci[c].mode, scr)
          /\ \A o \in ci[c].outputs : /\ ci[c].mode \in Range(omodes[o])
                                      /\ c \in Range(ocrtcs[o])
    /\ \A c, d \in Crtcs : c # d => ci[c].outputs \cap ci[d].outputs = {}

\* No function is applied on its own while the daemon runs.
NoProbe == [fn |-> "none", args |-> <<>>, res |-> <<>>, done |-> FALSE]

Init ==
    /\ resOutputs \in {<<1, 2>>, <<2, 1>>}
    /\ \E hw \in Hardware : outCrtcs = hw.crtcs /\ outModes = hw.modes
    /\ edid \in [Outputs -> {0} \cup Monitors]
    /\ screen \in ScreenSizes
    /\ crtcInfo \in {ci \in [Crtcs -> CrtcStates] :
                       Consistent(ci, screen, outCrtcs, outModes)}
    /\ events = <<>>
    /\ pc = "start"
    /\ force_print = FALSE
    /\ cfg = NoConfig
    /\ enables = <<>>
    /\ disables = <<>>
    /\ geom = Mode(0, 0)
    /\ current = Mode(0, 0)
    /\ result = "none"
    /\ log = <<>>
    /\ allocs = <<>>
    /\ allOk = TRUE
    /\ hwChanged = FALSE
    /\ prevClean = FALSE
    /\ prevResult = "none"
    /\ passes = 0
    /\ consumed = 0
    /\ nEnv = 0
    /\ faults = 0
    /\ probe = NoProbe

Next ==
    \/ daemon_start
    \/ daemon_exit
    \/ wait_for_event
    \/ switch_setup
    \/ read_error
    \/ apply_config_plan
    \/ apply_config_disable
    \/ apply_config_grow
    \/ apply_config_enable
    \/ apply_config_final
    \/ hotplug
    \/ notify

Spec == Init /\ [][Next]_vars

(* ---------------------------------------------------------------------- *)
(* The daemon with its own writes echoed as notifications                 *)
(* ---------------------------------------------------------------------- *)

\* The daemon subscribed to screen changes on the connection it writes
\* with, so the server queues a screen-change notification for every
\* request of the daemon that it applies.  Here the server fails no request
\* by itself: a request is answered with a protocol error when it is
\* invalid, with success otherwise.
disable_echoed == commit_disable(TRUE) /\ faults' = faults
grow_echoed == commit_grow(TRUE) /\ faults' = faults
enable_echoed == commit_enable(TRUE) /\ faults' = faults
final_echoed == commit_final(TRUE) /\ faults' = faults

\* The steps of the daemon.  It is one sequential process: once started it
\* runs a pass to its end, and wait_for_event returns as soon as an event
\* is queued.
DaemonStep ==
    \/ daemon_start
    \/ wait_for_event
    \/ switch_setup
    \/ apply_config_plan
    \/ disable_echoed
    \/ grow_echoed
    \/ enable_echoed
    \/ final_echoed

\* The only external changes are up to MaxEnv hotplugs.
NextEcho ==
    \/ DaemonStep
    \/ hotplug

SpecEcho == Init /\ [][NextEcho]_vars /\ WF_vars(DaemonStep)

(* ---------------------------------------------------------------------- *)
(* find_mode_id and allocate_crtc applied on their own                    *)
(* ---------------------------------------------------------------------- *)

\* The arguments the two functions are applied to: mode descriptors with
\* ids 10..12 of two sizes, outputs that list up to MaxList of the mode ids
\* 10..13 or of the Crtcs 1..3, bound to a Crtc or to none, and every set of
\* free Crtcs.
ProbeModeIds == {10, 11, 12, 13}
ProbeSizes == {Mode(800, 600), Mode(1024, 768)}
ProbeCrtcs == {1, 2, 3}

\* The lists without repetition of up to MaxList elements of S.
Lists(S) ==
    UNION {{l \in [1..n -> S] : \A i, j \in 1..n : l[i] = l[j] => i = j} :
             n \in 0..MaxList}

\* The mode lists the server can advertise: each id at most once.
ProbeResModes ==
    {{[id |-> i, width |-> f[i].w, height |-> f[i].h] : i \in DOMAIN f} :
        f \in UNION {[D -> ProbeSizes] : D \in SUBSET (ProbeModeIds \ {13})}}

OutputInfo(crtc, crtcs, modes) == [crtc |-> crtc, crtcs |-> crtcs, modes |-> modes]

FindModeIdArgs ==
    [resModes : ProbeResModes,
     info : {OutputInfo(0, <<>>, l) : l \in Lists(ProbeModeIds)},
     mode : ProbeSizes]

AllocateCrtcArgs ==
    [info : {OutputInfo(c, l, <<>>) : c \in {0} \cup ProbeCrtcs, l \in Lists(ProbeCrtcs)},
     free : SUBSET ProbeCrtcs]

\* The daemon is not running.
Parked ==
    /\ resOutputs = <<>>
    /\ outCrtcs = <<>>
    /\ outModes = <<>>
    /\ edid = <<>>
    /\ crtcInfo = <<>>
    /\ screen = Mode(0, 0)
    /\ events = <<>>
    /\ pc = "exited"
    /\ force_print = FALSE
    /\ cfg = NoConfig
    /\ enables = <<>>
    /\ disables = <<>>
    /\ geom = Mode(0, 0)
    /\ current = Mode(0, 0)
    /\ result = "none"
    /\ log = <<>>
    /\ allocs = <<>>
    /\ allOk = TRUE
    /\ hwChanged = FALSE
    /\ prevClean = FALSE
    /\ prevResult = "none"
    /\ passes = 0
    /\ consumed = 0
    /\ nEnv = 0
    /\ faults = 0

InitPure ==
    /\ Parked
    /\ \/ \E a \in FindModeIdArgs :
             probe = [fn |-> "find_mode_id", args |-> a,
                      res |-> [err |-> "none", id |-> 0], done |-> FALSE]
       \/ \E a \in AllocateCrtcArgs :
             probe = [fn |-> "allocate_crtc", args |-> a,
                      res |-> [dest |-> 0, free |-> {}], done |-> FALSE]

\* find_mode_id is applied to the index mode_map builds from the server's
\* mode list.
apply_find_mode_id ==
    /\ probe.fn = "find_mode_id"
    /\ ~probe.done
    /\ probe' = [probe EXCEPT
                   !.res = find_mode_id(probe.args.info,
                                        mode_index(probe.args.resModes),
                                        probe.args.mode),
                   !.done = TRUE]
    /\ UNCHANGED <<server, events, daemonVars, hwChanged, nEnv>>

\* allocate_crtc is applied.
apply_allocate_crtc ==
    /\ probe.fn = "allocate_crtc"
    /\ ~probe.done
    /\ probe' = [probe EXCEPT
                   !.res = allocate_crtc(probe.args.info, probe.args.free),
                   !.done = TRUE]
    /\ UNCHANGED <<server, events, daemonVars, hwChanged, nEnv>>

NextPure ==
    \/ apply_find_mode_id
    \/ apply_allocate_crtc

SpecPure == InitPure /\ [][NextPure]_vars

(* ---------------------------------------------------------------------- *)
(* The order of the commit                                                *)
(* ---------------------------------------------------------------------- *)

StepRank(step) ==
    CASE step = "disable" -> 1
      [] step = "grow"    -> 2
      [] step = "enable"  -> 3
      [] step = "final"   -> 4

\* The SetCrtcConfig requests the running pass has issued in a step.
Issued(step) ==
    LET es == SelectSeq(log, LAMBDA e : e.step = step)
    IN  [i \in 1..Len(es) |-> es[i].req]

\* A SetScreenSize request that makes the screen smaller in a dimension.
Reduces(e) ==
    /\ e.step \in {"grow", "final"}
    /\ (e.size.w < e.before.w \/ e.size.h < e.before.h)

\* C1: the write requests of a pass are issued in the order disable batch,
\* grow, enable batch, final set-screen-size, each batch in full before the
\* next step; a set-screen-size request that reduces a dimension is the final
\* request of the pass and comes after the whole enable batch.
C1_CommitOrder ==
    /\ \A i, j \in 1..Len(log) :
          i < j => StepRank(log[i].step) <= StepRank(log[j].step)
    /\ \A step \in {"grow", "final"} :
          Cardinality({i \in 1..Len(log) : log[i].step = step}) <= 1
    /\ \A i \in 1..Len(log) :
          /\ log[i].step = "disable" => log[i].req.mode = 0 /\ log[i].req.outputs = {}
          /\ log[i].step = "enable" => log[i].req.mode # 0 /\ log[i].req.outputs # {}
    /\ (pc \in {"grow", "enable", "final"} \/ result = "changed")
          => Issued("disable") = disables
    /\ (pc = "final" \/ result = "changed") => Issued("enable") = enables
    /\ \A i \in 1..Len(log) :
          Reduces(log[i]) => /\ log[i].step = "final"
                             /\ i = Len(log)
                             /\ Issued("enable") = enables
                             /\ log[i].size = cfg.fb_size

\* A pass that disabled a Crtc, enabled one and then made the screen smaller.
C1_Witness ==
    /\ result = "changed"
    /\ \E i, j, k \in 1..Len(log) :
          /\ i < j /\ j < k
          /\ log[i].step = "disable"
          /\ log[j].step = "enable"
          /\ Reduces(log[k])

\* C2: when the enable batch is sent, the framebuffer is in both dimensions
\* at least as large as the size read at the start of the commit and as the
\* target size, and no larger than the larger of the two.
C2_EnableInsideGrownScreen ==
    pc = "enable" =>
        /\ screen.w >= geom.w /\ screen.w >= cfg.fb_size.w
        /\ screen.h >= geom.h /\ screen.h >= cfg.fb_size.h
        /\ screen.w \in {geom.w, cfg.fb_size.w}
        /\ screen.h \in {geom.h, cfg.fb_size.h}

\* The enable batch is about to be sent after a grow in one dimension towards
\* a target that is smaller in the other.
C2_Witness ==
    /\ pc = "enable"
    /\ enables # <<>>
    /\ geom.w < cfg.fb_size.w
    /\ geom.h > cfg.fb_size.h

(* ---------------------------------------------------------------------- *)
(* The allocations of a pass                                              *)
(* ---------------------------------------------------------------------- *)

\* C3: within a pass no two configured outputs are given the same Crtc, and
\* every allocation takes a Crtc out of the free set.
C3_AllocationsDistinct ==
    /\ \A i, j \in 1..Len(allocs) : i # j => allocs[i].crtc # allocs[j].crtc
    /\ \A i \in 1..Len(allocs) :
          /\ allocs[i].after \subseteq allocs[i].before
          /\ allocs[i].after # allocs[i].before

(* ---------------------------------------------------------------------- *)
(* The profile matcher                                                    *)
(* ---------------------------------------------------------------------- *)

\* A key lists exactly the monitors attached in e, each as often as attached.
KeyMatches(K, e) ==
    \A m \in Monitors :
        Cardinality({i \in 1..Len(K) : K[i] = m})
            = Cardinality({o \in Outputs : e[o] = m})

NoKey(e) == \A K \in DOMAIN Config : ~KeyMatches(K, e)

\* The pass has looked the attached monitors up.
Matched == cfg.seen # <<>>

\* C4: get_config returns a profile exactly when some key of the profile set
\* lists exactly the attached identified monitors, and then it returns that
\* key's profile with the MonConfig of every attached monitor of its setup.
C4_ExactMatch ==
    Matched =>
        /\ cfg.found <=> \E K \in DOMAIN Config : KeyMatches(K, cfg.seen)
        /\ \A K \in DOMAIN Config :
              KeyMatches(K, cfg.seen) =>
                  /\ cfg.name = Config[K].name
                  /\ cfg.fb_size = Config[K].fb_size
                  /\ DOMAIN cfg.out = {o \in Outputs : cfg.seen[o] \in DOMAIN Config[K].setup}
                  /\ \A o \in DOMAIN cfg.out : cfg.out[o] = Config[K].setup[cfg.seen[o]]

\* Only monitor A is attached, the keys <<A>> and <<A, B>> both exist, and
\* the profile of <<A>> was selected.
C4_Witness ==
    /\ Matched
    /\ Cardinality({o \in Outputs : cfg.seen[o] = 1}) = 1
    /\ Cardinality({o \in Outputs : cfg.seen[o] = 2}) = 0
    /\ {<<1>>, <<1, 2>>} \subseteq DOMAIN Config
    /\ cfg.found
    /\ cfg.name = "single"

\* C5: a pass that finds no profile for the attached monitors issues no
\* write request and leaves the Crtcs and the framebuffer as they are; no
\* other profile is applied and no pass is started until the next
\* screen-change notification.
C5_NoMatchNoWrite ==
    /\ []((Matched /\ NoKey(cfg.seen)) =>
             (log = <<>> /\ pc = "wait" /\ result = "NoMatch" /\ ~cfg.found))
    /\ [][(Matched /\ NoKey(cfg.seen)) =>
             (crtcInfo' = crtcInfo /\ screen' = screen)]_vars
    /\ [][(result = "NoMatch" /\ passes' # passes) =>
             (events # <<>> /\ Head(events) = "ScreenChangeNotify")]_vars

\* A pass ended without a match while monitors were attached and a Crtc was
\* enabled.
C5_Witness ==
    /\ result = "NoMatch"
    /\ pc = "wait"
    /\ \E o \in Outputs : cfg.seen[o] # 0
    /\ \E c \in Crtcs : crtcInfo[c].mode # 0

(* ---------------------------------------------------------------------- *)
(* The result of apply_config                                             *)
(* ---------------------------------------------------------------------- *)

NothingToDo == enables = <<>> /\ disables = <<>> /\ geom = cfg.fb_size

\* C6: apply_config returns "unchanged" exactly when both queues are empty
\* and the geometry read equals the target, and then it has issued no write
\* request; otherwise it goes on to the commit.
C6_UnchangedIff ==
    /\ result = "unchanged" => (NothingToDo /\ log = <<>> /\ pc = "wait")
    /\ (pc \in {"disable", "grow", "enable", "final"} \/ result = "changed"
          \/ log # <<>>) => ~NothingToDo

\* A pass found its outputs configured already and returned "unchanged".
C6_Witness ==
    /\ result = "unchanged"
    /\ DOMAIN cfg.out # {}
    /\ allocs # <<>>

\* C7: a pass that follows a successful pass whose requests were all applied,
\* with no monitor plugged or unplugged since, computes empty queues and
\* issues no write request.
C7_Idempotent ==
    (prevClean /\ ~hwChanged) => (enables = <<>> /\ disables = <<>> /\ log = <<>>)

\* C8: after a successful pass whose requests were all applied, every
\* configured output is driven by a Crtc in a mode of the configured size at
\* the configured position, no Crtc drives two configured outputs, and every
\* Crtc that was not allocated is off.
C8_RealizesProfile ==
    (pc = "wait" /\ result \in {"changed", "unchanged"} /\ allOk) =>
        /\ \A o \in DOMAIN cfg.out :
              \E c \in Crtcs :
                  /\ o \in crtcInfo[c].outputs
                  /\ crtcInfo[c].mode # 0
                  /\ ModeSize(crtcInfo[c].mode) = cfg.out[o].mode
                  /\ crtcInfo[c].x = cfg.out[o].position.x
                  /\ crtcInfo[c].y = cfg.out[o].position.y
        /\ \A c \in Crtcs : Cardinality(crtcInfo[c].outputs \cap DOMAIN cfg.out) <= 1
        /\ \A c \in Crtcs \ {allocs[i].crtc : i \in 1..Len(allocs)} :
              crtcInfo[c].mode = 0 /\ crtcInfo[c].outputs = {}

(* ---------------------------------------------------------------------- *)
(* The control loop                                                       *)
(* ---------------------------------------------------------------------- *)

TakesScreenChange ==
    /\ pc = "wait"
    /\ events # <<>>
    /\ Head(events) = "ScreenChangeNotify"
    /\ events' = Tail(events)

\* C9: one pass runs right after the subscription, before any event is
\* taken; after that every screen-change notification taken starts exactly
\* one pass and an event of another kind starts none; events are taken only
\* while no pass is running, so passes never overlap.
C9_ControlLoop ==
    /\ [](passes = IF pc \in {"start", "exited"} THEN 0 ELSE 1 + consumed)
    /\ [][pc = "start" =>
            \/ (pc' = "switch" /\ passes' = 1 /\ force_print' /\ events' = events)
            \/ pc' = "exited"]_vars
    /\ [][passes' # passes =>
            /\ passes' = passes + 1
            /\ ~InPass
            /\ pc' = "switch"
            /\ (pc = "start" \/ TakesScreenChange)]_vars
    /\ [][Len(events') < Len(events) =>
            /\ pc = "wait"
            /\ events' = Tail(events)
            /\ IF Head(events) = "ScreenChangeNotify"
               THEN passes' = passes + 1 /\ pc' = "switch" /\ ~force_print'
               ELSE passes' = passes /\ pc' = "wait"]_vars

\* The daemon waits again after the initial pass and an event of another
\* kind, which it took and dropped.
C9_Witness ==
    /\ pc = "wait"
    /\ passes = 1
    /\ consumed = 0
    /\ nEnv = 1
    /\ events = <<>>

\* C10: a pass that fails leaves the daemon waiting for the next event: the
\* process does not exit, the pass is not run again by itself, and the next
\* screen-change notification starts a new pass.
C10_ErrorsEndOnlyThePass ==
    /\ [](result \in PassErrors => pc = "wait")
    /\ [](passes >= 1 => pc # "exited")
    /\ []((result \in PassErrors /\ events # <<>>) => ENABLED wait_for_event)
    /\ [][(result \in PassErrors /\ passes' # passes) => TakesScreenChange]_vars
    /\ [][(result \in PassErrors /\ TakesScreenChange) =>
            (pc' = "switch" /\ passes' = passes + 1)]_vars

\* A new pass has begun for a screen-change notification after a pass that
\* failed for want of a Crtc.
C10_Witness ==
    /\ prevResult = "NoCrtc"
    /\ pc = "switch"
    /\ passes = 2

(* ---------------------------------------------------------------------- *)
(* Failure statuses                                                       *)
(* ---------------------------------------------------------------------- *)

\* The entries a step adds to the log.
NewEntries == IF Len(log') > Len(log) THEN (Len(log) + 1)..Len(log') ELSE {}

\* The running or last pass got a failure status and no protocol error.
FailedOnly ==
    /\ \E i \in 1..Len(log) : log[i].reply = "failed"
    /\ \A i \in 1..Len(log) : log[i].reply # "error"

\* C11: every request of a batch reaches the server whatever the replies to
\* the other requests of the batch are, and a request answered with success
\* stays applied; a reply with a failure status ends neither the batch nor
\* the pass: the pass goes on through the remaining steps of the commit and
\* ends with "changed".
C11_FailureStatusGoesOn ==
    /\ [][\A i \in NewEntries :
            (/\ log'[i].step \in {"disable", "enable"}
             /\ log'[i].reply = "ok"
             /\ ~\E j \in NewEntries : /\ j > i
                                       /\ log'[j].reply = "ok"
                                       /\ log'[j].req.crtc = log'[i].req.crtc)
            => crtcInfo'[log'[i].req.crtc] =
                  [x |-> log'[i].req.x, y |-> log'[i].req.y,
                   mode |-> log'[i].req.mode, outputs |-> log'[i].req.outputs]]_vars
    /\ [][\A i \in NewEntries :
            log'[i].reply = "failed" =>
               /\ (\A j \in NewEntries : log'[j].reply # "error")
                     => (pc' # "wait" \/ result' = "changed")
               /\ Len(log') - Len(log) = Len(IF pc = "disable" THEN disables ELSE enables)]_vars
    /\ []((FailedOnly /\ pc = "wait") =>
            /\ result = "changed"
            /\ Issued("disable") = disables
            /\ Issued("enable") = enables
            /\ geom # union(geom, cfg.fb_size) =>
                  \E i \in 1..Len(log) : /\ log[i].step = "grow"
                                         /\ log[i].size = union(geom, cfg.fb_size)
            /\ union(geom, cfg.fb_size) # cfg.fb_size =>
                  \E i \in 1..Len(log) : /\ log[i].step = "final"
                                         /\ log[i].size = cfg.fb_size)

\* A pass whose enable batch got a failure status for its first request and
\* success for a later one, and that then set the final size and ended
\* "changed".
C11_Witness ==
    /\ result = "changed"
    /\ pc = "wait"
    /\ \E i, k, l \in 1..Len(log) :
          /\ i < k
          /\ log[i].step = "enable" /\ log[i].reply = "failed"
          /\ log[k].step = "enable" /\ log[k].reply = "ok"
          /\ log[l].step = "final" /\ log[l].reply = "ok"

(* ---------------------------------------------------------------------- *)
(* Mode resolution and Crtc allocation                                    *)
(* ---------------------------------------------------------------------- *)

\* The ids of the server's modes that have the wanted size.
IdsOfSize(resModes, mode) ==
    {mi.id : mi \in {r \in resModes : r.width = mode.w /\ r.height = mode.h}}

\* C12: find_mode_id fails with ModeNotFound when no mode of the server has
\* the wanted size; else it fails with ModeNotSupported when no id of that
\* size is in the output's list; else it returns an id that has the wanted
\* size and is in the output's list, the first such id of the list.
C12_ModeResolution ==
    (probe.fn = "find_mode_id" /\ probe.done) =>
        LET a == probe.args
            ids == IdsOfSize(a.resModes, a.mode)
            cap == Range(a.info.modes)
        IN  /\ ids = {} => probe.res = [err |-> "ModeNotFound", id |-> 0]
            /\ (ids # {} /\ ids \cap cap = {}) =>
                  probe.res = [err |-> "ModeNotSupported", id |-> 0]
            /\ ids \cap cap # {} =>
                  /\ probe.res.err = "none"
                  /\ probe.res.id \in ids \cap cap
                  /\ \E i \in 1..Len(a.info.modes) :
                        /\ a.info.modes[i] = probe.res.id
                        /\ \A j \in 1..(i - 1) : a.info.modes[j] \notin ids

\* Modes 10 and 11 have the size 800x600, the output lists 11 and 12, and
\* 11 was returned.
C12_Witness ==
    /\ probe.fn = "find_mode_id"
    /\ probe.done
    /\ probe.args.resModes = {[id |-> 10, width |-> 800, height |-> 600],
                              [id |-> 11, width |-> 800, height |-> 600]}
    /\ probe.args.info.modes = <<11, 12>>
    /\ probe.args.mode = Mode(800, 600)
    /\ probe.res = [err |-> "none", id |-> 11]

\* C13: allocate_crtc returns the Crtc the output is bound to whenever that
\* is not 0, whatever the free set and the list of capable Crtcs hold; for
\* an unbound output it returns the first Crtc of the list that is in the
\* free set, and none when the list has no such Crtc.  The Crtc returned is
\* taken out of the free set.
C13_BoundCrtcFirst ==
    (probe.fn = "allocate_crtc" /\ probe.done) =>
        LET a == probe.args
            hits == {i \in 1..Len(a.info.crtcs) : a.info.crtcs[i] \in a.free}
        IN  /\ a.info.crtc # 0 => probe.res.dest = a.info.crtc
            /\ (a.info.crtc = 0 /\ hits = {}) => probe.res.dest = 0
            /\ (a.info.crtc = 0 /\ hits # {}) =>
                  \E i \in hits : /\ probe.res.dest = a.info.crtcs[i]
                                  /\ \A j \in hits : i <= j
            /\ probe.res.free = a.free \ {probe.res.dest}

\* An output bound to Crtc 2, which is neither free nor in its list, got
\* Crtc 2.
C13_Witness ==
    /\ probe.fn = "allocate_crtc"
    /\ probe.done
    /\ probe.args.info.crtc = 2
    /\ probe.args.info.crtcs = <<1, 3>>
    /\ probe.args.free = {1, 3}
    /\ probe.res.dest = 2

(* ---------------------------------------------------------------------- *)
(* The queues apply_config builds                                         *)
(* ---------------------------------------------------------------------- *)

\* The enable queue holds a request that makes the Crtc drive the output.
Queued(e) ==
    \E k \in 1..Len(enables) : /\ enables[k].crtc = e.crtc
                               /\ enables[k].outputs = {e.out}

\* C14: the enable request for a configured output is left out only when
\* the Crtc allocated to it already drives that output, in the resolved
\* mode, at the configured position; in every other case a request for the
\* output is queued.
C14_SkipOnlyWhenBound ==
    \A i \in 1..Len(allocs) :
        LET e == allocs[i]
        IN  Queued(e) <=> ~(/\ e.out \in e.info.outputs
                            /\ e.info.mode = e.mode
                            /\ e.info.x = e.position.x
                            /\ e.info.y = e.position.y)

\* The Crtcs allocate_crtc returned in the running pass.
Allocated == {allocs[i].crtc : i \in 1..Len(allocs)}

\* C15: when the queues are built, the disable queue holds one request for
\* each Crtc that no configured output was allocated and that drives an
\* output or has a mode, and nothing else: each request switches its Crtc
\* off, and no Crtc allocated in the pass is in the queue.
C15_DisableLeftovers ==
    (pc = "disable" \/ result = "unchanged") =>
        /\ {disables[k].crtc : k \in 1..Len(disables)} =
              {c \in Crtcs \ Allocated :
                  crtcInfo[c].outputs # {} \/ crtcInfo[c].mode # 0}
        /\ \A k, l \in 1..Len(disables) :
              disables[k].crtc = disables[l].crtc => k = l
        /\ \A k \in 1..Len(disables) :
              /\ disables[k].mode = 0
              /\ disables[k].outputs = {}
              /\ disables[k].crtc \notin Allocated

\* A pass allocated a Crtc that is in use and queued the disabling of
\* another one.
C15_Witness ==
    /\ pc = "disable"
    /\ disables # <<>>
    /\ \E i \in 1..Len(allocs) : crtcInfo[allocs[i].crtc].mode # 0

(* ---------------------------------------------------------------------- *)
(* The framebuffer after a pass                                           *)
(* ---------------------------------------------------------------------- *)

\* C16: when apply_config has returned "changed" or "unchanged", the
\* framebuffer has exactly the size the profile asks for, whatever size it
\* had when the pass began.
C16_ExactFramebuffer ==
    (pc = "wait" /\ result \in {"changed", "unchanged"}) => screen = cfg.fb_size

\* A pass that found the screen narrower and taller than the target ended
\* "changed" with the screen at the target size.
C16_Witness ==
    /\ pc = "wait"
    /\ result = "changed"
    /\ geom.w < cfg.fb_size.w
    /\ geom.h > cfg.fb_size.h
    /\ screen = cfg.fb_size

(* ---------------------------------------------------------------------- *)
(* Outputs without identity                                               *)
(* ---------------------------------------------------------------------- *)

\* The outputs whose identity the pass could read.
Live == {o \in Outputs : cfg.seen[o] # 0}

\* The key lists the identities of the live outputs, each as often as it is
\* attached.
LiveKey(K) ==
    /\ Len(K) = Cardinality(Live)
    /\ \A m \in Monitors :
          Cardinality({i \in 1..Len(K) : K[i] = m})
              = Cardinality({o \in Live : cfg.seen[o] = m})

\* C17: an output whose identity cannot be read is not part of the live
\* monitor set: it adds nothing to the lookup key, so the profile keyed by
\* the identifiable monitors alone is still selected, and it has no entry in
\* the map from output to MonConfig, which holds only live outputs whose
\* monitor is in the selected profile's setup.
C17_UnidentifiedLeftOut ==
    Matched =>
        /\ \A o \in Outputs \ Live : o \notin DOMAIN cfg.out
        /\ \A K \in DOMAIN Config :
              LiveKey(K) => /\ cfg.found
                            /\ cfg.name = Config[K].name
                            /\ \A o \in DOMAIN cfg.out :
                                  /\ o \in Live
                                  /\ cfg.seen[o] \in DOMAIN Config[K].setup
        /\ cfg.found => \E K \in DOMAIN Config : LiveKey(K)

\* One output has no readable identity, the other carries monitor A, and
\* the profile keyed by A alone was selected with an entry for that output
\* only.
C17_Witness ==
    /\ Matched
    /\ \E o, p \in Outputs : /\ cfg.seen[o] = 0
                             /\ cfg.seen[p] = 1
                             /\ DOMAIN cfg.out = {p}
    /\ cfg.found
    /\ cfg.name = "single"

(* ---------------------------------------------------------------------- *)
(* The order of the allocation                                            *)
(* ---------------------------------------------------------------------- *)

\* The configured outputs in the order apply_config visits them.
Visited == SelectSeq(resOutputs, LAMBDA o : o \in DOMAIN cfg.out)

Reverse(s) == [i \in 1..Len(s) |-> s[Len(s) + 1 - i]]

\* The configured outputs can each be given a capable Crtc of their own.
Assignable ==
    \E f \in [DOMAIN cfg.out -> Crtcs] :
        /\ \A o \in DOMAIN cfg.out : f[o] \in Range(outCrtcs[o])
        /\ \A o, p \in DOMAIN cfg.out : f[o] = f[p] => o = p

\* C18: the allocation is greedy in the server's order of the outputs: the
\* i-th configured output is served after the first i-1, an unbound output
\* gets the first Crtc of its list that none of the earlier ones took,
\* whatever the later outputs need, and the pass fails with NoCrtc exactly at
\* an unbound output whose capable Crtcs were all taken by earlier outputs.
\* Nothing is undone or tried in another order, so the outcome depends on
\* the order.
C18_GreedyInOrder ==
    /\ \A i \in 1..Len(allocs) :
          LET e == allocs[i]
              taken == {allocs[j].crtc : j \in 1..(i - 1)}
          IN  /\ i <= Len(Visited)
              /\ e.out = Visited[i]
              /\ e.before = Crtcs \ taken
              /\ e.bound = 0 =>
                    \E k \in 1..Len(outCrtcs[e.out]) :
                       /\ e.crtc = outCrtcs[e.out][k]
                       /\ e.crtc \notin taken
                       /\ \A l \in 1..(k - 1) : outCrtcs[e.out][l] \in taken
    /\ result = "NoCrtc" =>
          /\ Len(allocs) < Len(Visited)
          /\ LET o == Visited[Len(allocs) + 1]
             IN  /\ OutputCrtc(crtcInfo, o) = 0
                 /\ Range(outCrtcs[o]) \subseteq Allocated
    /\ (pc \in {"disable", "grow", "enable", "final"} \/ result \in {"changed", "unchanged"})
          => Len(allocs) = Len(Visited)

\* A pass failed with NoCrtc although every configured output could have a
\* capable Crtc of its own, and the same loop over the same server state in
\* the opposite order of the outputs allocates them all.
C18_Witness ==
    /\ result = "NoCrtc"
    /\ pc = "wait"
    /\ Assignable
    /\ plan_outputs(Reverse(Visited), cfg.out,
          [free |-> Crtcs, enables |-> <<>>, allocs |-> <<>>, err |-> "none"]).err = "none"

(* ---------------------------------------------------------------------- *)
(* Failures of the planning loop                                          *)
(* ---------------------------------------------------------------------- *)

\* The errors of mode resolution and Crtc allocation.
PlanErrors == {"ModeNotFound", "ModeNotSupported", "NoCrtc"}

\* C19: a pass that fails with ModeNotFound, ModeNotSupported or NoCrtc has
\* issued no write request: these errors arise only in the planning loop,
\* which runs for all configured outputs before the first write, and from
\* the start of the pass to its failure, and after it until the next pass,
\* the Crtcs and the framebuffer are not changed.
C19_PlanErrorsBeforeWrites ==
    /\ [](result \in PlanErrors => (pc = "wait" /\ log = <<>>))
    /\ [][(result' \in PlanErrors /\ result \notin PlanErrors) => pc = "plan"]_vars
    /\ [][(pc \in {"switch", "plan"} \/ result \in PlanErrors)
            => (crtcInfo' = crtcInfo /\ screen' = screen /\ log' = <<>>)]_vars
    /\ [](pc \in {"disable", "grow", "enable", "final"} => Len(allocs) = Len(Visited))

\* The loop had queued an enable request for the first output when the
\* second one failed for want of a Crtc; nothing was written.
C19_Witness ==
    /\ result = "NoCrtc"
    /\ pc = "wait"
    /\ enables # <<>>
    /\ log = <<>>
    /\ \E c \in Crtcs : crtcInfo[c].mode # 0

(* ---------------------------------------------------------------------- *)
(* Quiescence                                                             *)
(* ---------------------------------------------------------------------- *)

\* The daemon waits and no notification is queued for it.
Quiet == pc = "wait" /\ events = <<>>

\* C20: with the daemon's own applied writes echoed to it as screen-change
\* notifications, the daemon runs a bounded number of passes after startup
\* and after each hotplug (at most 7, and 4 more for each hotplug, with two
\* outputs and two Crtcs), and once the hotplugs have ended it comes to wait
\* with no notification queued and stays so: its own writes do not keep
\* triggering it.
C20_Quiescence ==
    /\ [](passes <= 7 + 4 * nEnv)
    /\ <>[]Quiet

\* After a hotplug the daemon ran a pass that wrote, took the echoes of its
\* own writes, found nothing to do, and waits with an empty queue.
C20_Witness ==
    /\ Quiet
    /\ nEnv = 1
    /\ result = "unchanged"
    /\ prevResult = "changed"
    /\ ~hwChanged
    /\ passes >= 4

====
